---- MODULE Spec2Model ----
(***************************************************************************)
(* Model of src/plugin.tsx: the image usage scanner / replacer plugin.     *)
(*                                                                         *)
(* Strings are sequences of tokens, so that String.includes and parseInt   *)
(* are computed, not assumed.  JavaScript values are records               *)
(* [t |-> type, s |-> string contents].                                    *)
(***************************************************************************)
EXTENDS Integers, Sequences, FiniteSets, TLC

(* ------------------------------------------------------------------ *)
(* Bounds of the model                                                 *)
(* ------------------------------------------------------------------ *)

\* number of canvas nodes of the project
NumNodes == 2
\* number of clicks on the two buttons in one behaviour of Spec
MaxCalls == 1
\* the same in SpecRace, where invocations overlap
RaceCalls == 2

(* ------------------------------------------------------------------ *)
(* Strings and JavaScript values                                       *)
(* ------------------------------------------------------------------ *)

\* 'framerusercontent.com' (lines 47, 57), as two tokens
HostSubstring == <<"framerusercontent", ".com">>

UrlA == <<"framerusercontent", ".com", "/a">>
UrlB == <<"framerusercontent", ".com", "/b">>
\* the host substring not at the start
UrlC == <<"cdn.", "framerusercontent", ".com">>
\* both tokens, not adjacent: does not include the host substring
UrlN == <<"framerusercontent", ".org", ".com">>
EmptyString == <<>>

Undefined == [t |-> "undefined", s |-> <<>>]
\* a truthy value that is not a string (an object, a non-zero number)
Object == [t |-> "object", s |-> <<>>]
Str(s) == [t |-> "string", s |-> s]

\* String.prototype.includes
Includes(s, sub) ==
  \E i \in 0..(Len(s) - Len(sub)) : SubSeq(s, i + 1, i + Len(sub)) = sub

\* JavaScript truthiness of a value: '' and undefined are falsy
Truthy(v) == v.t = "object" \/ (v.t = "string" /\ v.s # <<>>)

\* a || b
Or(a, b) == IF Truthy(a) THEN a ELSE b

\* (a variant that reads the fallback slot first)
FallbackFirst(node) == Or(node.src, node.image)

\* const url = props.image || props.src   (node.props || {} reads as two
\* undefined slots)
ResolvedUrl(node) == Or(node.image, node.src)

\* typeof v === 'string' && v.includes('framerusercontent.com')
Qualifies(v) == v.t = "string" /\ Includes(v.s, HostSubstring)

EmptyMap == [x \in {} |-> 0]

\* (a variant that records the URL without counting)
IncrementOnce(usages, url) ==
  IF url \in DOMAIN usages THEN usages ELSE usages @@ (url :> 1)

\* usages[url] = (usages[url] || 0) + 1
Increment(usages, url) ==
  IF url \in DOMAIN usages
    THEN [usages EXCEPT ![url] = @ + 1]
    ELSE usages @@ (url :> 1)

(* ------------------------------------------------------------------ *)
(* fetchSize                                                           *)
(* ------------------------------------------------------------------ *)

Num(n) == [k |-> "number", n |-> n]
NaN == [k |-> "NaN", n |-> 0]
NoSize == [k |-> "undefined", n |-> 0]
\* the promise of fetchSize rejected: what the try/catch of lines 13-22 rules out
SizeRejected == [k |-> "rejected", n |-> 0]

Digits == {"0", "7"}
DigitValue(d) == IF d = "7" THEN 7 ELSE 0

\* length of the longest prefix of s made of digits
RECURSIVE DigitPrefix(_)
DigitPrefix(s) ==
  IF s = <<>> \/ Head(s) \notin Digits THEN 0 ELSE 1 + DigitPrefix(Tail(s))

RECURSIVE DecimalValue(_, _)
DecimalValue(s, n) ==
  IF n = 0 THEN 0 ELSE 10 * DecimalValue(s, n - 1) + DigitValue(s[n])

\* parseInt(size): the leading digits of the string, NaN when there are none
\* (fetch strips the white space around a header value; signs and the 0x
\* prefix are not among the inputs)
ParseInt(s) ==
  IF DigitPrefix(s) = 0 THEN NaN ELSE Num(DecimalValue(s, DigitPrefix(s)))

\* A response of the network to the two requests of fetchSize:
\*   headOk  the HEAD request resolves
\*   header  res.headers.get('content-length'): [present, s]
\*   getOk   the GET request and r.blob() resolve
\*   blob    blob.size
\* A failed request throws inside the try block and line 21 returns
\* undefined; if (size) is false of null and of the empty string.
FetchSize(r) ==
  IF ~r.headOk THEN NoSize
  ELSE IF r.header.present /\ r.header.s # <<>> THEN ParseInt(r.header.s)
  ELSE IF ~r.getOk THEN NoSize
  ELSE Num(r.blob)

\* the responses probed by the size resolver on its own (MaxHeaderLen: the
\* length of a content-length header)
MaxHeaderLen == 2
HeaderTokens == {"0", "7", "k"}
HeaderStrings == UNION {[1..n -> HeaderTokens] : n \in 0..MaxHeaderLen}
Headers ==
  {[present |-> FALSE, s |-> <<>>]} \cup
  {[present |-> TRUE, s |-> h] : h \in HeaderStrings}
ProbeResponses ==
  [headOk : BOOLEAN, header : Headers, getOk : BOOLEAN, blob : {0, 3}]

\* the responses met by the probes of a scan: a server that declares the
\* length, and a network that is down
Reachable ==
  [headOk |-> TRUE, header |-> [present |-> TRUE, s |-> <<"7">>],
   getOk |-> TRUE, blob |-> 3]
Unreachable ==
  [headOk |-> FALSE, header |-> [present |-> FALSE, s |-> <<>>],
   getOk |-> FALSE, blob |-> 0]

(* ------------------------------------------------------------------ *)
(* State                                                               *)
(* ------------------------------------------------------------------ *)

VARIABLES
  nodes,      \* host: the canvas nodes, each [image, src] (node.props)
  cms,        \* host: the collections, each a sequence of items (fields)
  api,        \* host: the capabilities the framer object provides
  down,       \* network: the URLs whose requests fail
  images,     \* React state: the displayed records
  newUrl,     \* React state: the replacement input
  selected,   \* React state: Record<string, boolean>
  mounted,    \* the mount effect has run
  tasks,      \* the invocations of scan() and replace(), in call order
  probe       \* the last call of fetchSize made on its own

vars == <<nodes, cms, api, down, images, newUrl, selected, mounted, tasks, probe>>

host == <<nodes, cms, api, down>>

\* what the host object may provide: the cms member and the functions the
\* code calls through ?.
Capabilities == {"getNodes", "cms", "getCollections", "getItems", "setProps", "patchItem"}

FieldKeys == <<"cover", "thumb">>

\* Task fields: kind and pc, the position of the invocation; targets and
\* newUrl, the values replace() closed over; i and c, the loop positions;
\* usages, the map of scan(); setProps and patchItem, the mutation calls the
\* invocation has issued, in order.  History only: before, the host data at
\* the call of replace(), and alone, whether no other replace() was then
\* between its first and its last mutation call.
Idle ==
  [kind |-> "none", pc |-> "idle", targets |-> {}, newUrl |-> <<>>,
   i |-> 0, c |-> 0, usages |-> EmptyMap, setProps |-> <<>>, patchItem |-> <<>>,
   before |-> <<>>, alone |-> FALSE]

NoProbe == [called |-> FALSE, resp |-> Unreachable, size |-> NoSize]

\* the contents of collections of the given numbers of items
CmsOver(shape, fieldValues) ==
  {m \in [DOMAIN shape -> UNION {[1..shape[c] -> fieldValues] : c \in DOMAIN shape}] :
     \A c \in DOMAIN shape : Len(m[c]) = shape[c]}

\* the state after construction (lines 31-33), over the given host data
\* (calls: the clicks on the buttons that the behaviour may hold)
InitOver(canvases, cmss, apis, downs, calls) ==
  /\ nodes \in canvases
  /\ cms \in cmss
  /\ api \in apis
  /\ down \in downs
  /\ images = {}
  /\ newUrl = <<>>
  /\ selected = EmptyMap
  /\ mounted = FALSE
  /\ tasks = [t \in 1..(1 + calls) |-> Idle]
  /\ probe = NoProbe

(* ------------------------------------------------------------------ *)
(* The host calls                                                      *)
(* ------------------------------------------------------------------ *)

\* the outcome of an awaited expression: a value, or an exception
Returned(v) == [ok |-> TRUE, value |-> v]
Threw == [ok |-> FALSE, value |-> <<>>]

\* (await framer.getNodes?.()) || []
GetNodes == Returned(IF "getNodes" \in api THEN nodes ELSE <<>>)
\* (await framer.cms.getCollections?.()) || []: the member access
\* framer.cms.getCollections is not optional and throws without framer.cms
GetCollections ==
  IF "cms" \notin api THEN Threw
  ELSE Returned(IF "getCollections" \in api THEN cms ELSE <<>>)
\* (await framer.cms.getItems?.(col.id)) || []
GetItems(c) ==
  IF "cms" \notin api THEN Threw
  ELSE Returned(IF "getItems" \in api THEN cms[c] ELSE <<>>)

\* an invocation whose promise rejected
Rejected(task) == [Idle EXCEPT !.kind = task.kind, !.pc = "rejected"]
\* an invocation that ran to its end
Done(task) == [Idle EXCEPT !.kind = task.kind, !.pc = "done"]

(* ------------------------------------------------------------------ *)
(* scan                                                                *)
(* ------------------------------------------------------------------ *)

\* lines 44-50
RECURSIVE CollectNodes(_, _)
CollectNodes(list, usages) ==
  IF list = <<>> THEN usages
  ELSE LET url == ResolvedUrl(Head(list))
       IN CollectNodes(Tail(list),
                       IF Qualifies(url) THEN Increment(usages, url.s) ELSE usages)

\* lines 56-60, over the fields named by keys
RECURSIVE CollectFields(_, _, _)
CollectFields(fields, keys, usages) ==
  IF keys = <<>> THEN usages
  ELSE LET val == fields[Head(keys)]
       IN CollectFields(fields, Tail(keys),
                        IF Qualifies(val) THEN Increment(usages, val.s) ELSE usages)

\* lines 55-61
RECURSIVE CollectItems(_, _)
CollectItems(items, usages) ==
  IF items = <<>> THEN usages
  ELSE CollectItems(Tail(items), CollectFields(Head(items), FieldKeys, usages))

\* invocations take the task numbers in the order of their calls
HasFreeTask == \E t \in DOMAIN tasks : tasks[t].pc = "idle"
FreeTask ==
  CHOOSE t \in DOMAIN tasks :
    tasks[t].pc = "idle" /\ \A u \in 1..(t - 1) : tasks[u].pc # "idle"

\* scan() up to its first await (lines 41-43)
StartScan(task) == [task EXCEPT !.pc = "s_nodes", !.usages = EmptyMap]

\* React.useEffect(() => { scan() }, [])
Mount ==
  /\ ~mounted
  /\ mounted' = TRUE
  /\ tasks' = [tasks EXCEPT ![FreeTask] = StartScan([Idle EXCEPT !.kind = "scan"])]
  /\ UNCHANGED <<host, images, newUrl, selected, probe>>

\* <Button onClick={scan}>: never disabled
Rescan ==
  /\ mounted
  /\ HasFreeTask
  /\ tasks' = [tasks EXCEPT ![FreeTask] = StartScan([Idle EXCEPT !.kind = "scan"])]
  /\ UNCHANGED <<host, images, newUrl, selected, mounted, probe>>

\* lines 43-52: the nodes arrive, are walked, and the collections are asked for
ScanNodes(t) ==
  /\ tasks[t].pc = "s_nodes"
  /\ tasks' = [tasks EXCEPT ![t] =
       IF ~GetNodes.ok THEN Rejected(@)
       ELSE [@ EXCEPT !.usages = CollectNodes(GetNodes.value, EmptyMap), !.pc = "s_cols"]]
  /\ UNCHANGED <<host, images, newUrl, selected, mounted, probe>>

\* lines 52-54: the collections arrive, or the expression of line 52 has
\* thrown; the items of the first are asked for
ScanCollections(t) ==
  /\ tasks[t].pc = "s_cols"
  /\ tasks' = [tasks EXCEPT ![t] =
       IF ~GetCollections.ok THEN Rejected(@)
       ELSE IF GetCollections.value = <<>> THEN [@ EXCEPT !.pc = "s_sizes"]
       ELSE [@ EXCEPT !.pc = "s_items", !.c = 1]]
  /\ UNCHANGED <<host, images, newUrl, selected, mounted, probe>>

\* lines 54-64: the items of collection c arrive and are walked; the items
\* of the next collection are asked for, or the sizes
ScanItems(t) ==
  /\ tasks[t].pc = "s_items"
  /\ LET c == tasks[t].c
     IN tasks' = [tasks EXCEPT ![t] =
          IF ~GetItems(c).ok THEN Rejected(@)
          ELSE [@ EXCEPT !.usages = CollectItems(GetItems(c).value, @),
                         !.pc = IF c < Len(GetCollections.value) THEN "s_items" ELSE "s_sizes",
                         !.c = IF c < Len(GetCollections.value) THEN c + 1 ELSE 0]]
  /\ UNCHANGED <<host, images, newUrl, selected, mounted, probe>>

\* what the network answers to the requests for url
Response(url) == IF url \in down THEN Unreachable ELSE Reachable

\* lines 64-69: one record per entry of usages
Records(usages) ==
  {[url |-> u, count |-> usages[u], size |-> FetchSize(Response(u))] : u \in DOMAIN usages}

\* (a variant that keeps the selection)
KeepSelected(sel) == sel

\* setSelected({})
ResetSelected(sel) == EmptyMap

\* lines 64-72 (and 110-111): every probe has settled (Promise.all rejects
\* if one of them did); the records are published, the selection is reset,
\* and a replace() awaiting this scan clears the input
ScanPublish(t) ==
  /\ tasks[t].pc = "s_sizes"
  /\ LET list == Records(tasks[t].usages)
     IN IF \E r \in list : r.size = SizeRejected
          THEN /\ tasks' = [tasks EXCEPT ![t] = Rejected(@)]
               /\ UNCHANGED <<images, selected, newUrl>>
          ELSE /\ images' = list
               /\ selected' = ResetSelected(selected)
               /\ newUrl' = IF tasks[t].kind = "replace" THEN <<>> ELSE newUrl
               /\ tasks' = [tasks EXCEPT ![t] = Done(@)]
  /\ UNCHANGED <<host, mounted, probe>>

(* ------------------------------------------------------------------ *)
(* replace                                                             *)
(* ------------------------------------------------------------------ *)

\* Object.keys(selected).filter(k => selected[k])
Targets(sel) == {k \in DOMAIN sel : sel[k]}

\* (a variant of the guard that looks at the input text only)
ReturnsOnEmptyInput(url, sel) == url = <<>>

\* !newUrl || !targets.length
ReplaceReturnsEarly(url, sel) == url = <<>> \/ Targets(sel) = {}

\* typeof v === 'string' && targets.includes(v)
IsTarget(v, targets) == v.t = "string" /\ v.s \in targets

ReplacePcs == {"r_nodes", "r_setProps", "r_cols", "r_items", "r_patchItem"}

\* some replace() is between line 83 and line 110
Replacing == \E t \in DOMAIN tasks : tasks[t].pc \in ReplacePcs

\* onClick={replace}: lines 80-83.  The button's disabled attribute repeats
\* the test of line 81; the function makes it again.
Replace ==
  /\ mounted
  /\ HasFreeTask
  /\ tasks' = [tasks EXCEPT ![FreeTask] =
       IF ReplaceReturnsEarly(newUrl, selected)
         THEN [Idle EXCEPT !.kind = "replace", !.pc = "returned"]
         ELSE [Idle EXCEPT !.kind = "replace", !.pc = "r_nodes",
                           !.targets = Targets(selected), !.newUrl = newUrl,
                           !.before = <<nodes, cms>>, !.alone = ~Replacing]]
  /\ UNCHANGED <<host, images, newUrl, selected, mounted, probe>>

Min(S) == CHOOSE x \in S : \A y \in S : x <= y

\* (a variant that writes the primary slot only)
SetPropsImageOnly(node, url) == [node EXCEPT !.image = Str(url)]

\* the props of a node after node.setProps({ image: newUrl, src: newUrl })
SetProps(node, url) == [image |-> Str(url), src |-> Str(url)]

\* lines 84-92 from node from on: up to the next setProps call, or, past
\* the last node, up to the getCollections call.  node.props is read when
\* the loop reaches the node.
NodeLoop(t, from) ==
  LET task == tasks[t]
      list == GetNodes.value
      hits == {j \in from..Len(list) : IsTarget(ResolvedUrl(list[j]), task.targets)}
  IN IF ~GetNodes.ok
       THEN /\ tasks' = [tasks EXCEPT ![t] = Rejected(@)]
            /\ UNCHANGED nodes
     ELSE IF hits = {}
       THEN /\ tasks' = [tasks EXCEPT ![t].pc = "r_cols", ![t].i = 0]
            /\ UNCHANGED nodes
     ELSE IF "setProps" \in api
       THEN /\ nodes' = [nodes EXCEPT ![Min(hits)] = SetProps(@, task.newUrl)]
            /\ tasks' = [tasks EXCEPT ![t].pc = "r_setProps", ![t].i = Min(hits),
                                      ![t].setProps = Append(@, Min(hits))]
       ELSE /\ tasks' = [tasks EXCEPT ![t].pc = "r_setProps", ![t].i = Min(hits)]
            /\ UNCHANGED nodes

\* line 83 resolves
ReplaceNodes(t) ==
  /\ tasks[t].pc = "r_nodes"
  /\ NodeLoop(t, 1)
  /\ UNCHANGED <<cms, api, down, images, newUrl, selected, mounted, probe>>

\* line 88 resolves
ReplaceSetProps(t) ==
  /\ tasks[t].pc = "r_setProps"
  /\ NodeLoop(t, tasks[t].i + 1)
  /\ UNCHANGED <<cms, api, down, images, newUrl, selected, mounted, probe>>

\* (a variant that rescans only when a mutation was issued)
ScanIfChanged(task) ==
  IF task.setProps = <<>> /\ task.patchItem = <<>> THEN Done(task) ELSE StartScan(task)

\* await scan() of line 110: replace enters the rescan
AwaitScan(task) == StartScan(task)

\* line 92 resolves
ReplaceCollections(t) ==
  /\ tasks[t].pc = "r_cols"
  /\ tasks' = [tasks EXCEPT ![t] =
       IF ~GetCollections.ok THEN Rejected(@)
       ELSE IF GetCollections.value = <<>> THEN AwaitScan(@)
       ELSE [@ EXCEPT !.pc = "r_items", !.c = 1]]
  /\ UNCHANGED <<host, images, newUrl, selected, mounted, probe>>

\* changed (lines 97-103)
Changed(fields, targets) == \E k \in DOMAIN fields : IsTarget(fields[k], targets)

\* (a variant that sends the changed fields only)
PatchChangedOnly(fields, targets, url) ==
  [k \in {x \in DOMAIN fields : IsTarget(fields[x], targets)} |-> Str(url)]

\* lines 96-104: the copy of the fields, every selected value replaced; it
\* is the payload { fields } of line 106
PatchFields(fields, targets, url) ==
  [k \in DOMAIN fields |-> IF IsTarget(fields[k], targets) THEN Str(url) ELSE fields[k]]

\* the fields of an item after framer.cms.patchItem(col.id, item.id, { fields })
PatchItem(item, fields) ==
  [k \in DOMAIN item \cup DOMAIN fields |-> IF k \in DOMAIN fields THEN fields[k] ELSE item[k]]

\* lines 95-110 in collection c from item from on: up to the next patchItem
\* call, or, past the last item, up to the next getItems call or, past the
\* last collection, into scan()
ItemLoop(t, c, from) ==
  LET task == tasks[t]
      items == GetItems(c).value
      hits == {j \in from..Len(items) : Changed(items[j], task.targets)}
      fields == PatchFields(items[Min(hits)], task.targets, task.newUrl)
  IN IF ~GetItems(c).ok
       THEN /\ tasks' = [tasks EXCEPT ![t] = Rejected(@)]
            /\ UNCHANGED cms
     ELSE IF hits = {}
       THEN /\ tasks' = [tasks EXCEPT ![t] =
                 IF c < Len(GetCollections.value)
                   THEN [@ EXCEPT !.pc = "r_items", !.c = c + 1, !.i = 0]
                   ELSE AwaitScan([@ EXCEPT !.c = 0, !.i = 0])]
            /\ UNCHANGED cms
     ELSE IF "patchItem" \in api
       THEN /\ cms' = [cms EXCEPT ![c][Min(hits)] = PatchItem(@, fields)]
            /\ tasks' = [tasks EXCEPT ![t].pc = "r_patchItem", ![t].i = Min(hits),
                           ![t].patchItem = Append(@, [col |-> c, item |-> Min(hits), fields |-> fields])]
       ELSE /\ tasks' = [tasks EXCEPT ![t].pc = "r_patchItem", ![t].i = Min(hits)]
            /\ UNCHANGED cms

\* line 94 resolves
ReplaceItems(t) ==
  /\ tasks[t].pc = "r_items"
  /\ ItemLoop(t, tasks[t].c, 1)
  /\ UNCHANGED <<nodes, api, down, images, newUrl, selected, mounted, probe>>

\* line 106 resolves
ReplacePatchItem(t) ==
  /\ tasks[t].pc = "r_patchItem"
  /\ ItemLoop(t, tasks[t].c, tasks[t].i + 1)
  /\ UNCHANGED <<nodes, api, down, images, newUrl, selected, mounted, probe>>

(* ------------------------------------------------------------------ *)
(* The user                                                            *)
(* ------------------------------------------------------------------ *)

\* the rows of the list (line 125)
Displayed == {r.url : r \in images}
\* checked={!!selected[url]}
Checked(url) == url \in DOMAIN selected /\ selected[url]

\* setSelected(s => ({ ...s, [url]: v }))
SetSelected(sel, url, v) ==
  [k \in DOMAIN sel \cup {url} |-> IF k = url THEN v ELSE sel[k]]

\* the Checkbox of a displayed row changes
Toggle ==
  /\ \E url \in Displayed : selected' = SetSelected(selected, url, ~Checked(url))
  /\ UNCHANGED <<host, images, newUrl, mounted, tasks, probe>>

\* what the user types: a URL of the tracked host, and one of another host
NewUrlInputs == {UrlC, UrlN}

\* <Input onChange={v => setNewUrl(v)}>
SetNewUrl ==
  /\ mounted
  /\ \E v \in NewUrlInputs : v # newUrl /\ newUrl' = v
  /\ UNCHANGED <<host, images, selected, mounted, tasks, probe>>

(* ------------------------------------------------------------------ *)
(* The plugin                                                          *)
(* ------------------------------------------------------------------ *)

\* two projects: a node that uses its image slot and one that falls back
\* to src; a collection with an item that holds a URL beside another value
\* and an item that holds no URL of the tracked host
Canvases ==
  {<<[image |-> Str(UrlA), src |-> Str(UrlB)], [image |-> Undefined, src |-> Str(u)]>> :
     u \in {UrlB, UrlC}}
Cmss ==
  {<< <<[cover |-> Str(UrlA), thumb |-> Object], [cover |-> Object, thumb |-> Str(UrlN)]>> >>}
\* a host with every capability, and one without the two mutations
Apis == {Capabilities, Capabilities \ {"setProps", "patchItem"}}
Downs == {{UrlB}}

Init == InitOver(Canvases, Cmss, Apis, Downs, MaxCalls)
Next ==
  \/ Mount
  \/ Rescan
  \/ Replace
  \/ Toggle
  \/ SetNewUrl
  \/ \E t \in DOMAIN tasks : ScanNodes(t)
  \/ \E t \in DOMAIN tasks : ScanCollections(t)
  \/ \E t \in DOMAIN tasks : ScanItems(t)
  \/ \E t \in DOMAIN tasks : ScanPublish(t)
  \/ \E t \in DOMAIN tasks : ReplaceNodes(t)
  \/ \E t \in DOMAIN tasks : ReplaceSetProps(t)
  \/ \E t \in DOMAIN tasks : ReplaceCollections(t)
  \/ \E t \in DOMAIN tasks : ReplaceItems(t)
  \/ \E t \in DOMAIN tasks : ReplacePatchItem(t)
Spec == Init /\ [][Next]_vars

(* ------------------------------------------------------------------ *)
(* Overlapping invocations                                             *)
(* ------------------------------------------------------------------ *)

InitRace ==
  InitOver({<<[image |-> Str(UrlA), src |-> Undefined]>>},
           {<< <<[cover |-> Str(UrlA), thumb |-> Object]>> >>},
           {Capabilities}, {{}}, RaceCalls)
SpecRace == InitRace /\ [][Next]_vars

(* ------------------------------------------------------------------ *)
(* The Collector on its own: the mount scan over every small host      *)
(* ------------------------------------------------------------------ *)

ScanImageValues == {Undefined, Object, Str(EmptyString), Str(UrlA), Str(UrlN)}
ScanSrcValues == {Undefined, Str(UrlA), Str(UrlB)}
ScanFields ==
  {[cover |-> Str(UrlA), thumb |-> Object],
   [cover |-> Str(UrlA), thumb |-> Str(UrlA)],
   [cover |-> Str(UrlN), thumb |-> Str(UrlB)]}
\* two collections of one item
ScanShape == <<1, 1>>
ScanDowns == {{}, {UrlA}}
ScanApis ==
  {Capabilities \ e : e \in SUBSET {"getNodes", "getCollections", "getItems"}}
    \cup {Capabilities \ {"cms"}}

InitScan ==
  InitOver([1..NumNodes -> [image : ScanImageValues, src : ScanSrcValues]],
           CmsOver(ScanShape, ScanFields), ScanApis, ScanDowns, 0)
NextScan ==
  \/ Mount
  \/ \E t \in DOMAIN tasks : ScanNodes(t)
  \/ \E t \in DOMAIN tasks : ScanCollections(t)
  \/ \E t \in DOMAIN tasks : ScanItems(t)
  \/ \E t \in DOMAIN tasks : ScanPublish(t)
SpecScan == InitScan /\ [][NextScan]_vars

(* ------------------------------------------------------------------ *)
(* The Size Resolver on its own                                        *)
(* ------------------------------------------------------------------ *)

\* fetchSize(url) against a network that answers with r
Probe ==
  /\ \E r \in ProbeResponses :
       probe' = [called |-> TRUE, resp |-> r, size |-> FetchSize(r)]
  /\ UNCHANGED <<host, images, newUrl, selected, mounted, tasks>>

InitSize == InitOver({<<>>}, {<<>>}, {Capabilities}, {{}}, 0)
NextSize == Probe
SpecSize == InitSize /\ [][NextSize]_vars

(* ------------------------------------------------------------------ *)
(* Properties: what the claims count                                   *)
(* ------------------------------------------------------------------ *)

\* the strings that occur in the model
KnownUrls == {UrlA, UrlB, UrlC, UrlN, EmptyString}
HostUrls == {u \in KnownUrls : Includes(u, HostSubstring)}

\* the nodes and the item fields the host gives access to
ExposedNodes == IF "getNodes" \in api THEN nodes ELSE <<>>
ExposedCms == IF {"cms", "getCollections", "getItems"} \subseteq api THEN cms ELSE <<>>

\* the nodes of ns whose resolved slot holds u
NodeOccurrences(ns, u) == Cardinality({n \in DOMAIN ns : ResolvedUrl(ns[n]) = Str(u)})

\* the item fields of m that hold u
FieldsHolding(m, u) ==
  UNION {UNION {{<<c, j, k>> : k \in {x \in DOMAIN m[c][j] : m[c][j][x] = Str(u)}} :
                  j \in DOMAIN m[c]} : c \in DOMAIN m}
FieldOccurrences(m, u) == Cardinality(FieldsHolding(m, u))

Occurrences(ns, m, u) == NodeOccurrences(ns, u) + FieldOccurrences(m, u)

CountIn(imgs, u) == IF \E r \in imgs : r.url = u THEN (CHOOSE r \in imgs : r.url = u).count ELSE 0
UsageOf(usages, u) == IF u \in DOMAIN usages THEN usages[u] ELSE 0

SomeDone == \E t \in DOMAIN tasks : tasks[t].pc = "done"

(* ------------------------------------------------------------------ *)
(* C2                                                                  *)
(* ------------------------------------------------------------------ *)

\* a header fetchSize can read a number from
Parseable(s) == s # <<>> /\ Head(s) \in Digits

ClaimedSize(r) ==
  IF r.header.present /\ Parseable(r.header.s) THEN ParseInt(r.header.s)
  ELSE IF r.getOk THEN Num(r.blob)
  ELSE NoSize

\* C2: whenever the HEAD request is answered, fetchSize returns the integer
\* of the content-length header if the header is present and parseable,
\* otherwise the length of the body of a GET, and undefined only if that GET
\* fails as well.
C2_HeaderElseBody ==
  (probe.called /\ probe.resp.headOk) => probe.size = ClaimedSize(probe.resp)

(* ------------------------------------------------------------------ *)
(* C3                                                                  *)
(* ------------------------------------------------------------------ *)

\* C3: the records a scan publishes hold only URLs that include the host
\* substring, and each URL's count is the number of nodes whose resolved
\* slot holds it plus the number of item fields that hold it, over the
\* sources the host exposes; every such URL has a record.
C3_CountsOccurrences ==
  SomeDone =>
    /\ \A r \in images :
         /\ Includes(r.url, HostSubstring)
         /\ r.count = Occurrences(ExposedNodes, ExposedCms, r.url)
    /\ \A u \in HostUrls : Occurrences(ExposedNodes, ExposedCms, u) > 0 => u \in Displayed

\* two nodes and one item field hold the same URL: its count is 3; a field
\* holds a string of another host, which has no record
C3_Witness ==
  /\ SomeDone
  /\ \E r \in images :
       /\ r.count = 3
       /\ NodeOccurrences(ExposedNodes, r.url) = 2
       /\ FieldOccurrences(ExposedCms, r.url) = 1
  /\ FieldsHolding(ExposedCms, UrlN) # {}
  /\ UrlN \notin Displayed

(* ------------------------------------------------------------------ *)
(* C6                                                                  *)
(* ------------------------------------------------------------------ *)

\* the slot the claim reads: image whenever it holds a string
ClaimedSlot(node) == IF node.image.t = "string" THEN node.image ELSE ResolvedUrl(node)

\* the slot read when an empty string counts as no value
NonEmptySlot(node) ==
  IF node.image.t = "string" /\ node.image.s # <<>> THEN node.image ELSE ResolvedUrl(node)

\* C6 as claimed: after the walk of the nodes, the count of every URL is the
\* number of nodes whose image slot, if it holds a string, holds that URL
\* (src being ignored), each node counting once.
C6_PrimaryString ==
  \A t \in DOMAIN tasks :
    (tasks[t].pc = "s_cols" /\ "getNodes" \in api) =>
      \A u \in HostUrls :
        UsageOf(tasks[t].usages, u) = Cardinality({n \in DOMAIN nodes : ClaimedSlot(nodes[n]) = Str(u)})

\* C6 amended: after the walk of the nodes, the count of every URL is the
\* number of nodes whose image slot, if it holds a non-empty string, holds
\* that URL (src being ignored), each node counting once; an empty string in
\* image falls back to src.
C6_PrimaryNonEmptyString ==
  \A t \in DOMAIN tasks :
    (tasks[t].pc = "s_cols" /\ "getNodes" \in api) =>
      \A u \in HostUrls :
        UsageOf(tasks[t].usages, u) = Cardinality({n \in DOMAIN nodes : NonEmptySlot(nodes[n]) = Str(u)})

\* both slots of a node hold URLs of the host, and only the one in image is
\* counted; another node holds a string of another host in image and is
\* not counted
C6_Witness ==
  \E t \in DOMAIN tasks :
    /\ tasks[t].pc = "s_cols"
    /\ "getNodes" \in api
    /\ nodes[1] = [image |-> Str(UrlA), src |-> Str(UrlB)]
    /\ nodes[2] = [image |-> Str(UrlN), src |-> Str(UrlA)]
    /\ tasks[t].usages = (UrlA :> 1)

(* ------------------------------------------------------------------ *)
(* C8                                                                  *)
(* ------------------------------------------------------------------ *)

\* the URLs of the host found in the sources the host exposes
FoundUrls ==
  {u \in HostUrls :
     \/ \E n \in DOMAIN ExposedNodes : ResolvedUrl(ExposedNodes[n]) = Str(u)
     \/ FieldsHolding(ExposedCms, u) # {}}

\* C8: no scan is rejected, whatever capabilities the host lacks and
\* whatever probes fail; a finished scan has published exactly the URLs
\* found in the sources the host exposes, with an unknown size for every
\* URL whose probe failed.
C8_ScanNeverFails ==
  /\ \A t \in DOMAIN tasks : tasks[t].pc # "rejected"
  /\ SomeDone =>
       /\ Displayed = FoundUrls
       /\ \A r \in images : r.url \in down => r.size = NoSize

(* ------------------------------------------------------------------ *)
(* C4                                                                  *)
(* ------------------------------------------------------------------ *)

NothingSelected == \A k \in DOMAIN selected : ~selected[k]

\* C4: a replace() called while the input is empty or no URL is selected
\* returns at once: it issues no call, changes neither the host data nor the
\* records, the selection or the input, and does nothing later either.
C4_ReplaceNoOp ==
  [][\A t \in DOMAIN tasks :
       /\ (tasks[t].pc = "idle" /\ tasks'[t].kind = "replace" /\ (newUrl = <<>> \/ NothingSelected)) =>
            /\ tasks'[t] = [Idle EXCEPT !.kind = "replace", !.pc = "returned"]
            /\ \A u \in DOMAIN tasks \ {t} : tasks'[u] = tasks[u]
            /\ UNCHANGED <<nodes, cms, images, selected, newUrl>>
       /\ tasks[t].pc = "returned" => tasks'[t] = tasks[t]]_vars

\* replace() has returned at once although the input holds text: the URLs
\* of the selection are all unchecked
C4_Witness ==
  /\ \E t \in DOMAIN tasks : tasks[t].pc = "returned"
  /\ newUrl # <<>>
  /\ DOMAIN selected # {}
  /\ NothingSelected
  /\ images # {}

(* ------------------------------------------------------------------ *)
(* C5                                                                  *)
(* ------------------------------------------------------------------ *)

\* C5: the step that completes a scan, whether called on its own or by
\* replace(), leaves the selection empty, whatever it held.
C5_SelectionCleared ==
  [][\A t \in DOMAIN tasks :
       (tasks[t].pc # "done" /\ tasks'[t].pc = "done") => selected' = EmptyMap]_vars

\* the scan of a replace() has completed, and nothing is selected
C5_Witness ==
  /\ \E t \in DOMAIN tasks : tasks[t].kind = "replace" /\ tasks[t].pc = "done"
  /\ selected = EmptyMap
  /\ images # {}

(* ------------------------------------------------------------------ *)
(* C1 and C9: a replace() no other replace() interferes with           *)
(* ------------------------------------------------------------------ *)

ScanPcs == {"s_nodes", "s_cols", "s_items", "s_sizes"}

\* no other replace() was running when t was called, and none was called
\* after it
Undisturbed(t) ==
  /\ tasks[t].alone
  /\ \A u \in DOMAIN tasks : u > t => (tasks[u].kind # "replace" \/ tasks[u].pc = "returned")

Selected(t, v) == v.t = "string" /\ v.s \in tasks[t].targets

\* the host data when replace() t was called
NodesBefore(t) == tasks[t].before[1]
CmsBefore(t) ==
  IF {"cms", "getCollections", "getItems"} \subseteq api THEN tasks[t].before[2] ELSE <<>>

\* the items that held a selected URL when replace() t was called
ChangedItems(t) ==
  {p \in UNION {{<<c, j>> : j \in DOMAIN CmsBefore(t)[c]} : c \in DOMAIN CmsBefore(t)} :
     \E k \in DOMAIN CmsBefore(t)[p[1]][p[2]] : Selected(t, CmsBefore(t)[p[1]][p[2]][k])}

\* the complete fields of an item, every selected value replaced
ExpectedFields(t, fields) ==
  [k \in DOMAIN fields |-> IF Selected(t, fields[k]) THEN Str(tasks[t].newUrl) ELSE fields[k]]

PatchCallsMatch(t) ==
  /\ Len(tasks[t].patchItem) = Cardinality(ChangedItems(t))
  /\ \A p \in ChangedItems(t) :
       \E n \in DOMAIN tasks[t].patchItem :
         /\ tasks[t].patchItem[n].col = p[1]
         /\ tasks[t].patchItem[n].item = p[2]
         /\ tasks[t].patchItem[n].fields = ExpectedFields(t, CmsBefore(t)[p[1]][p[2]])

\* C9 as claimed: when replace() has walked the items, it has issued exactly
\* one patchItem call for every item that held a selected URL, with the
\* item's complete fields, the selected values replaced, and no call for any
\* other item.
C9_OnePatchPerChangedItem ==
  \A t \in DOMAIN tasks :
    (tasks[t].kind = "replace" /\ tasks[t].pc \in ScanPcs /\ Undisturbed(t)) =>
      PatchCallsMatch(t)

\* C9 amended: the same, on a host that provides patchItem.
C9_OnePatchWherePatchable ==
  \A t \in DOMAIN tasks :
    (tasks[t].kind = "replace" /\ tasks[t].pc \in ScanPcs /\ Undisturbed(t)
       /\ "patchItem" \in api) =>
      PatchCallsMatch(t)

\* replace() has walked two items, one of them changed: one call, whose
\* payload carries the unchanged field too
C9_Witness ==
  \E t \in DOMAIN tasks :
    /\ tasks[t].kind = "replace" /\ tasks[t].pc \in ScanPcs /\ Undisturbed(t)
    /\ "patchItem" \in api
    /\ Len(tasks[t].patchItem) = 1
    /\ tasks[t].patchItem[1].fields = [cover |-> Str(tasks[t].newUrl), thumb |-> Object]
    /\ Len(CmsBefore(t)[1]) = 2

(* ------------------------------------------------------------------ *)
(* C1                                                                  *)
(* ------------------------------------------------------------------ *)

\* the step that completes the scan of replace() t
Completes(t) ==
  tasks[t].kind = "replace" /\ tasks[t].pc = "s_sizes" /\ tasks'[t].pc = "done"

\* no mutation call is missing: the host provides every capability
Successful(t) == Undisturbed(t) /\ Capabilities \subseteq api

\* the occurrences of u the scan before replace() t counted
PriorCount(t, u) ==
  IF Includes(u, HostSubstring) THEN Occurrences(NodesBefore(t), CmsBefore(t), u) ELSE 0

RECURSIVE SumOfPrior(_, _)
SumOfPrior(t, urls) ==
  IF urls = {} THEN 0
  ELSE LET u == CHOOSE x \in urls : TRUE
       IN PriorCount(t, u) + SumOfPrior(t, urls \ {u})

\* every slot that resolved to a selected URL, and every field that held
\* one, holds the replacement
Rewritten(t) ==
  /\ \A n \in DOMAIN NodesBefore(t) :
       /\ Selected(t, ResolvedUrl(NodesBefore(t)[n])) => ResolvedUrl(nodes'[n]) = Str(tasks[t].newUrl)
       /\ (Selected(t, NodesBefore(t)[n].image) /\ NodesBefore(t)[n].image.s # <<>>) =>
            nodes'[n].image = Str(tasks[t].newUrl)
       /\ (~Truthy(NodesBefore(t)[n].image) /\ Selected(t, NodesBefore(t)[n].src)) =>
            nodes'[n].src = Str(tasks[t].newUrl)
  /\ \A c \in DOMAIN CmsBefore(t) : \A j \in DOMAIN CmsBefore(t)[c] :
       \A k \in DOMAIN CmsBefore(t)[c][j] :
         Selected(t, CmsBefore(t)[c][j][k]) => cms'[c][j][k] = Str(tasks[t].newUrl)

\* the selected URLs have no record, and the replacement is counted with
\* their occurrences and its own
Recounted(t) ==
  /\ \A old \in tasks[t].targets : CountIn(images', old) = 0
  /\ CountIn(images', tasks[t].newUrl) = SumOfPrior(t, tasks[t].targets \cup {tasks[t].newUrl})

C7_AlwaysRescans ==
  [][\A t \in DOMAIN tasks :
       tasks[t].kind = "replace" =>
         /\ (tasks[t].pc \in ReplacePcs /\ tasks'[t].pc \notin ReplacePcs) =>
              tasks'[t].pc = "s_nodes"
         /\ (tasks[t].pc # "done" /\ tasks'[t].pc = "done") =>
              (tasks[t].pc = "s_sizes" /\ newUrl' = <<>>)]_vars

\* a replace() is in its rescan after a mutation phase that found nothing
\* to change, on a host with every capability
C7_Witness ==
  \E t \in DOMAIN tasks :
    /\ tasks[t].kind = "replace"
    /\ tasks[t].pc \in ScanPcs
    /\ tasks[t].targets # {}
    /\ tasks[t].setProps = <<>>
    /\ tasks[t].patchItem = <<>>
    /\ Capabilities \subseteq api

(* ------------------------------------------------------------------ *)
(* C10                                                                 *)
(* ------------------------------------------------------------------ *)

Quiescent == \A t \in DOMAIN tasks : tasks[t].pc \in {"idle", "done", "returned"}

\* C10: whenever no scan or replace is in flight, the records on display
\* are those a scan of the current host data produces: a scan that read the
\* host earlier never overwrites the result of a later one.
C10_DisplayIsFresh ==
  (Quiescent /\ SomeDone) =>
    {<<r.url, r.count>> : r \in images} =
      {<<u, Occurrences(ExposedNodes, ExposedCms, u)>> : u \in FoundUrls}

====
